---- MODULE Spec2Model ----
(***************************************************************************)
(* Model of the expense form logic of opencollective-frontend:             *)
(*   src/components/CollectivePickerInviteMenu.js                          *)
(*     InviteCollectiveForm,                                               *)
(*     getDefaultExpense, prepareExpenseForSubmit, validate,               *)
(*     getPayoutMethodsFromPayee, ExpenseFormBody, ExpenseForm             *)
(*   src/components/expenses/ExpenseFormPayeeSignUpStep.js                 *)
(*     getPayoutMethodsFromPayee, ExpenseFormPayeeStep                     *)
(*                                                                         *)
(* JavaScript values.  An object is a function over its property names; a  *)
(* property that is not set is a name outside the DOMAIN.  null and        *)
(* undefined are the records Null and Undefined; a string or number that   *)
(* may be compared with them is wrapped by Str / Num.  An array is a       *)
(* sequence.                                                               *)
(***************************************************************************)
EXTENDS Integers, Sequences, FiniteSets, TLC

VARIABLES
    values,                 \* formik.values: the expense draft of the form
    errors,                 \* formik.errors
    validated,              \* errors is the outcome of a validation of the current values
    hasValidate,            \* ExpenseForm: React state hasValidate
    submitAttempts,         \* number of submit attempts made on the form
    onSubmitCalls,          \* number of calls of the onSubmit prop
    lastSubmitted,          \* argument of the last call of the onSubmit prop
    allPayoutMethods,       \* ExpenseFormBody: memo allPayoutMethods
    payeeStepPayoutMethods, \* ExpenseFormPayeeStep: memo allPayoutMethods
    rendered,               \* the components that have computed their memo
    payload,                \* result of prepareExpenseForSubmit for the values, once computed
    payloadAgain,           \* result of prepareExpenseForSubmit for the payload, once computed
    props,                  \* the props of the mounted component, other than expense
    initialVals,            \* formik.initialValues: the values the form was mounted with
    step,                   \* ExpenseFormBody: React state step
    persisted,              \* the values held by the form persister
    pendingEffects,         \* the effects of ExpenseFormBody to run for the last render, if any
    lastSave,               \* the last call of formPersister.saveValues
    lastLoad,               \* the last application of persisted values by the load effect
    onNextCalls,            \* number of calls of the onNext prop
    onCancelCalls,          \* number of calls of the onCancel prop
    inviteValue,            \* InviteCollectiveForm: React state value
    onSaveCalls,            \* number of calls of the onSave prop
    lastSaved               \* argument of the last call of the onSave prop

formVars == <<values, errors, validated, hasValidate, submitAttempts, onSubmitCalls, lastSubmitted>>
memoVars == <<allPayoutMethods, payeeStepPayoutMethods, rendered>>
prepVars == <<payload, payloadAgain>>
bodyVars == <<props, initialVals, step, persisted, pendingEffects, lastSave, lastLoad>>
callVars == <<onNextCalls, onCancelCalls, inviteValue, onSaveCalls, lastSaved>>
vars == <<formVars, memoVars, prepVars, bodyVars, callVars>>

-----------------------------------------------------------------------------
(* Bounds *)

MaxPayoutMethods == 3
MaxItems == 2
MaxSubmits == 2
MaxFormItems == 1
MaxFormSubmits == 1
MaxStepClicks == 1
MaxInviteCalls == 1

-----------------------------------------------------------------------------
(* JavaScript values *)

Null == [t |-> "null"]
Undefined == [t |-> "undefined"]
Str(s) == [t |-> "string", v |-> s]
Num(n) == [t |-> "number", v |-> n]
EmptyObject == [k \in {} |-> k]

\* !!x for a value that is not an array
Truthy(x) == x # Null /\ x # Undefined /\ x # Str("") /\ x # Num(0)

\* obj[key] of JavaScript: undefined when the property is not set
Prop(obj, key) == IF key \in DOMAIN obj THEN obj[key] ELSE Undefined

\* lodash get(obj, path) for a path of one or two property names; obj may be null/undefined
Get(obj, path) ==
    IF ~Truthy(obj) THEN Undefined
    ELSE IF Len(path) = 1 THEN Prop(obj, path[1])
    ELSE LET inner == Prop(obj, path[1])
         IN  IF ~Truthy(inner) THEN Undefined ELSE Prop(inner, path[2])

\* lodash pick(obj, keys); obj may be null/undefined
Pick(obj, keys) ==
    IF ~Truthy(obj) THEN EmptyObject
    ELSE [k \in (DOMAIN obj) \cap keys |-> obj[k]]

\* lodash isEmpty for an object
isEmpty(obj) == DOMAIN obj = {}

-----------------------------------------------------------------------------
(* Constants of lib/constants *)

ACCOUNT_BALANCE == "ACCOUNT_BALANCE"
BANK_ACCOUNT == "BANK_ACCOUNT"
OTHER_PAYOUT == "OTHER"
PayoutMethodType == {ACCOUNT_BALANCE, BANK_ACCOUNT, OTHER_PAYOUT}

INVOICE == "INVOICE"
RECEIPT == "RECEIPT"
FUNDING_REQUEST == "FUNDING_REQUEST"
expenseTypes == {INVOICE, RECEIPT, FUNDING_REQUEST}

CollectiveType == {"COLLECTIVE", "FUND", "EVENT", "PROJECT", "USER", "ORGANIZATION"}
CollectiveFamilyTypes == {"COLLECTIVE", "FUND", "EVENT", "PROJECT"}
AccountTypesWithHost == {"COLLECTIVE", "FUND", "EVENT", "PROJECT"}

FORM_FIELD_REQUIRED == [type |-> "FORM_FIELD_REQUIRED"]

-----------------------------------------------------------------------------
(* getPayoutMethodsFromPayee *)

\* the entry that getPayoutMethodsFromPayee puts in front for an active payee
NewAccountBalance ==
    [id |-> Str("new"), data |-> EmptyObject, type |-> ACCOUNT_BALANCE, isSaved |-> TRUE]

IsSavedPm(pm) == pm.isSaved
IsAccountBalance(pm) == pm.type = ACCOUNT_BALANCE

\* Variants of getPayoutMethodsFromPayee with one step changed
getPayoutMethodsFromPayee_NoFamilyFilter(payee) ==
    LET basePms == IF Truthy(payee) /\ "payoutMethods" \in DOMAIN payee
                   THEN payee.payoutMethods ELSE <<>>
        savedPms == SelectSeq(basePms, IsSavedPm)
    IN  IF Truthy(payee) /\ "isActive" \in DOMAIN payee /\ payee.isActive
           /\ SelectSeq(savedPms, IsAccountBalance) = <<>>
        THEN <<NewAccountBalance>> \o savedPms
        ELSE savedPms

getPayoutMethodsFromPayee_Push(payee) ==
    LET basePms == IF Truthy(payee) /\ "payoutMethods" \in DOMAIN payee
                   THEN payee.payoutMethods ELSE <<>>
        savedPms == SelectSeq(basePms, IsSavedPm)
        filteredPms ==
            IF Truthy(payee) /\ "isActive" \in DOMAIN payee /\ payee.isActive
               /\ SelectSeq(savedPms, IsAccountBalance) = <<>>
            THEN savedPms \o <<NewAccountBalance>>
            ELSE savedPms
    IN  IF Truthy(payee) /\ payee.type \in CollectiveFamilyTypes
        THEN SelectSeq(filteredPms, IsAccountBalance)
        ELSE filteredPms

getPayoutMethodsFromPayee_AlwaysInject(payee) ==
    LET basePms == IF Truthy(payee) /\ "payoutMethods" \in DOMAIN payee
                   THEN payee.payoutMethods ELSE <<>>
        savedPms == SelectSeq(basePms, IsSavedPm)
        filteredPms ==
            IF Truthy(payee) /\ "isActive" \in DOMAIN payee /\ payee.isActive
            THEN <<NewAccountBalance>> \o savedPms
            ELSE savedPms
    IN  IF Truthy(payee) /\ payee.type \in CollectiveFamilyTypes
        THEN SelectSeq(filteredPms, IsAccountBalance)
        ELSE filteredPms

getPayoutMethodsFromPayee_NoSavedFilter(payee) ==
    LET basePms == IF Truthy(payee) /\ "payoutMethods" \in DOMAIN payee
                   THEN payee.payoutMethods ELSE <<>>
        filteredPms ==
            IF Truthy(payee) /\ "isActive" \in DOMAIN payee /\ payee.isActive
               /\ SelectSeq(basePms, IsAccountBalance) = <<>>
            THEN <<NewAccountBalance>> \o basePms
            ELSE basePms
    IN  IF Truthy(payee) /\ payee.type \in CollectiveFamilyTypes
        THEN SelectSeq(filteredPms, IsAccountBalance)
        ELSE filteredPms

\* src/components/CollectivePickerInviteMenu.js (uses CollectiveFamilyTypes)
getPayoutMethodsFromPayee(payee) ==
    LET basePms == IF Truthy(payee) /\ "payoutMethods" \in DOMAIN payee
                   THEN payee.payoutMethods ELSE <<>>
        savedPms == SelectSeq(basePms, IsSavedPm)
        filteredPms ==
            IF Truthy(payee) /\ "isActive" \in DOMAIN payee /\ payee.isActive
               /\ SelectSeq(savedPms, IsAccountBalance) = <<>>
            THEN <<NewAccountBalance>> \o savedPms
            ELSE savedPms
    IN  IF Truthy(payee) /\ payee.type \in CollectiveFamilyTypes
        THEN SelectSeq(filteredPms, IsAccountBalance)
        ELSE filteredPms

\* src/components/expenses/ExpenseFormPayeeSignUpStep.js (uses AccountTypesWithHost)
getPayoutMethodsFromPayeeStep(payee) ==
    LET basePms == IF Truthy(payee) /\ "payoutMethods" \in DOMAIN payee
                   THEN payee.payoutMethods ELSE <<>>
        savedPms == SelectSeq(basePms, IsSavedPm)
        filteredPms ==
            IF Truthy(payee) /\ "isActive" \in DOMAIN payee /\ payee.isActive
               /\ SelectSeq(savedPms, IsAccountBalance) = <<>>
            THEN <<NewAccountBalance>> \o savedPms
            ELSE savedPms
    IN  IF Truthy(payee) /\ "type" \in DOMAIN payee /\ payee.type \in AccountTypesWithHost
        THEN SelectSeq(filteredPms, IsAccountBalance)
        ELSE filteredPms

-----------------------------------------------------------------------------
(* lib/form-utils, ExpenseItemForm, PayoutMethodForm: collaborators of validate *)

\* requireFields(obj, fields): FORM_FIELD_REQUIRED at every path of fields whose value
\* is missing or empty; fields is a set of paths of one or two property names
requireFields(obj, fields) ==
    LET missing == {f \in fields : ~Truthy(Get(obj, f))}
    IN  [k \in {f[1] : f \in missing} |->
            IF <<k>> \in missing THEN FORM_FIELD_REQUIRED
            ELSE [k2 \in {f[2] : f \in {g \in missing : g[1] = k}} |-> FORM_FIELD_REQUIRED]]

\* validateExpenseItem(expense, item): a positive amount, a non-empty description and,
\* for a receipt, a file reference or an incurredAt date
validateExpenseItem(expense, item) ==
    LET amount == Prop(item, "amount")
        badAmount == ~(amount # Undefined /\ amount # Null /\ amount.v > 0)
        badDescription == ~Truthy(Prop(item, "description"))
        badReceipt == /\ Prop(expense, "type") = Str(RECEIPT)
                      /\ ~Truthy(Prop(item, "url"))
                      /\ ~Truthy(Prop(item, "incurredAt"))
    IN  [k \in ((IF badAmount THEN {"amount"} ELSE {})
                \cup (IF badDescription THEN {"description"} ELSE {})
                \cup (IF badReceipt THEN {"url"} ELSE {})) |-> FORM_FIELD_REQUIRED]

\* validatePayoutMethod(payoutMethod): structural checks that depend on the type;
\* a bank account needs data.currency, another method needs data.content
validatePayoutMethod(payoutMethod) ==
    IF payoutMethod.type = BANK_ACCOUNT
    THEN requireFields(payoutMethod, {<<"data", "currency">>})
    ELSE IF payoutMethod.type = OTHER_PAYOUT
    THEN requireFields(payoutMethod, {<<"data", "content">>})
    ELSE EmptyObject

-----------------------------------------------------------------------------
(* getDefaultExpense, prepareExpenseForSubmit, validate *)

getDefaultExpense(collective) ==
    [description |-> Str(""),
     longDescription |-> Str(""),
     items |-> <<>>,
     attachedFiles |-> <<>>,
     payee |-> Null,
     payoutMethod |-> Undefined,
     privateMessage |-> Str(""),
     invoiceInfo |-> Str(""),
     currency |-> collective.currency,
     payeeLocation |-> [address |-> Str(""), country |-> Null]]

\* the fault raised by a read of a property of undefined
TypeError == [t |-> "TypeError"]

\* typeof x === 'string'
IsString(x) == "t" \in DOMAIN x /\ x.t = "string"

\* Variant of prepareItem that keeps the url of the items of every type of expense
prepareItem_KeepsUrl(item, isInvoice, isFundingRequest) ==
    Pick(item, (IF "__isNew" \in DOMAIN item /\ item["__isNew"] THEN {} ELSE {"id"})
               \cup {"url", "description", "incurredAt", "amount"})

prepareItem(item, isInvoice, isFundingRequest) ==
    Pick(item, (IF "__isNew" \in DOMAIN item /\ item["__isNew"] THEN {} ELSE {"id"})
               \cup (IF isInvoice \/ isFundingRequest THEN {} ELSE {"url"})
               \cup {"description", "incurredAt", "amount"})

\* Variant of prepareExpenseForSubmit that always keys the payee by id
prepareExpenseForSubmit_AlwaysId(expenseData) ==
    LET payeeIdField == IF IsString(Get(expenseData, <<"payee", "id">>)) THEN "id" ELSE "legacyId"
        isInvoice == Prop(expenseData, "type") = Str(INVOICE)
        isFundingRequest == Prop(expenseData, "type") = Str(FUNDING_REQUEST)
    IN  IF "items" \notin DOMAIN expenseData
        THEN TypeError
        ELSE
        [payee |-> IF Truthy(Prop(expenseData, "payee"))
                   THEN "id" :> Prop(expenseData.payee, "id")
                   ELSE Prop(expenseData, "payee"),
         payoutMethod |-> Pick(Prop(expenseData, "payoutMethod"),
                               {"id", "name", "data", "isSaved", "type"}),
         payeeLocation |-> IF isInvoice
                           THEN Pick(Prop(expenseData, "payeeLocation"), {"address", "country"})
                           ELSE Null,
         attachedFiles |-> IF isInvoice
                           THEN IF "attachedFiles" \in DOMAIN expenseData
                                THEN [i \in DOMAIN expenseData.attachedFiles |->
                                         Pick(expenseData.attachedFiles[i], {"id", "url"})]
                                ELSE Undefined
                           ELSE <<>>,
         items |-> [i \in DOMAIN expenseData.items |->
                       prepareItem(expenseData.items[i], isInvoice, isFundingRequest)]]
        @@ Pick(expenseData, {"id", "description", "longDescription", "type",
                              "privateMessage", "invoiceInfo", "tags"})

\* Variant of prepareExpenseForSubmit that forwards the location and the files of
\* every type of expense
prepareExpenseForSubmit_LocationForEveryType(expenseData) ==
    LET payeeIdField == IF IsString(Get(expenseData, <<"payee", "id">>)) THEN "id" ELSE "legacyId"
        isInvoice == Prop(expenseData, "type") = Str(INVOICE)
        isFundingRequest == Prop(expenseData, "type") = Str(FUNDING_REQUEST)
    IN  IF "items" \notin DOMAIN expenseData
        THEN TypeError
        ELSE
        [payee |-> IF Truthy(Prop(expenseData, "payee"))
                   THEN payeeIdField :> Prop(expenseData.payee, "id")
                   ELSE Prop(expenseData, "payee"),
         payoutMethod |-> Pick(Prop(expenseData, "payoutMethod"),
                               {"id", "name", "data", "isSaved", "type"}),
         payeeLocation |-> IF TRUE
                           THEN Pick(Prop(expenseData, "payeeLocation"), {"address", "country"})
                           ELSE Null,
         attachedFiles |-> IF "attachedFiles" \in DOMAIN expenseData
                           THEN [i \in DOMAIN expenseData.attachedFiles |->
                                    Pick(expenseData.attachedFiles[i], {"id", "url"})]
                           ELSE Undefined,
         items |-> [i \in DOMAIN expenseData.items |->
                       prepareItem(expenseData.items[i], isInvoice, isFundingRequest)]]
        @@ Pick(expenseData, {"id", "description", "longDescription", "type",
                              "privateMessage", "invoiceInfo", "tags"})

\* Variant of prepareExpenseForSubmit that spreads the draft instead of picking from it
prepareExpenseForSubmit_Spread(expenseData) ==
    LET payeeIdField == IF IsString(Get(expenseData, <<"payee", "id">>)) THEN "id" ELSE "legacyId"
        isInvoice == Prop(expenseData, "type") = Str(INVOICE)
        isFundingRequest == Prop(expenseData, "type") = Str(FUNDING_REQUEST)
    IN  IF "items" \notin DOMAIN expenseData
        THEN TypeError
        ELSE
        [payee |-> IF Truthy(Prop(expenseData, "payee"))
                   THEN payeeIdField :> Prop(expenseData.payee, "id")
                   ELSE Prop(expenseData, "payee"),
         payoutMethod |-> Pick(Prop(expenseData, "payoutMethod"),
                               {"id", "name", "data", "isSaved", "type"}),
         payeeLocation |-> IF isInvoice
                           THEN Pick(Prop(expenseData, "payeeLocation"), {"address", "country"})
                           ELSE Null,
         attachedFiles |-> IF isInvoice
                           THEN IF "attachedFiles" \in DOMAIN expenseData
                                THEN [i \in DOMAIN expenseData.attachedFiles |->
                                         Pick(expenseData.attachedFiles[i], {"id", "url"})]
                                ELSE Undefined
                           ELSE <<>>,
         items |-> [i \in DOMAIN expenseData.items |->
                       prepareItem(expenseData.items[i], isInvoice, isFundingRequest)]]
        @@ expenseData

\* Variant of prepareExpenseForSubmit that keys a string id by legacyId and any other
\* id by id
prepareExpenseForSubmit_SwappedIdField(expenseData) ==
    LET payeeIdField == IF IsString(Get(expenseData, <<"payee", "id">>)) THEN "id" ELSE "legacyId"
        isInvoice == Prop(expenseData, "type") = Str(INVOICE)
        isFundingRequest == Prop(expenseData, "type") = Str(FUNDING_REQUEST)
    IN  IF "items" \notin DOMAIN expenseData
        THEN TypeError
        ELSE
        [payee |-> IF Truthy(Prop(expenseData, "payee"))
                   THEN (IF payeeIdField = "id" THEN "legacyId" ELSE "id") :> Prop(expenseData.payee, "id")
                   ELSE Prop(expenseData, "payee"),
         payoutMethod |-> Pick(Prop(expenseData, "payoutMethod"),
                               {"id", "name", "data", "isSaved", "type"}),
         payeeLocation |-> IF isInvoice
                           THEN Pick(Prop(expenseData, "payeeLocation"), {"address", "country"})
                           ELSE Null,
         attachedFiles |-> IF isInvoice
                           THEN IF "attachedFiles" \in DOMAIN expenseData
                                THEN [i \in DOMAIN expenseData.attachedFiles |->
                                         Pick(expenseData.attachedFiles[i], {"id", "url"})]
                                ELSE Undefined
                           ELSE <<>>,
         items |-> [i \in DOMAIN expenseData.items |->
                       prepareItem(expenseData.items[i], isInvoice, isFundingRequest)]]
        @@ Pick(expenseData, {"id", "description", "longDescription", "type",
                              "privateMessage", "invoiceInfo", "tags"})

\* Variant of prepareExpenseForSubmit that reads expenseData.attachedFiles.map
prepareExpenseForSubmit_NoOptionalChaining(expenseData) ==
    LET payeeIdField == IF IsString(Get(expenseData, <<"payee", "id">>)) THEN "id" ELSE "legacyId"
        isInvoice == Prop(expenseData, "type") = Str(INVOICE)
        isFundingRequest == Prop(expenseData, "type") = Str(FUNDING_REQUEST)
    IN  IF "items" \notin DOMAIN expenseData
           \/ (isInvoice /\ "attachedFiles" \notin DOMAIN expenseData)
        THEN TypeError
        ELSE
        [payee |-> IF Truthy(Prop(expenseData, "payee"))
                   THEN payeeIdField :> Prop(expenseData.payee, "id")
                   ELSE Prop(expenseData, "payee"),
         payoutMethod |-> Pick(Prop(expenseData, "payoutMethod"),
                               {"id", "name", "data", "isSaved", "type"}),
         payeeLocation |-> IF isInvoice
                           THEN Pick(Prop(expenseData, "payeeLocation"), {"address", "country"})
                           ELSE Null,
         attachedFiles |-> IF isInvoice
                           THEN IF "attachedFiles" \in DOMAIN expenseData
                                THEN [i \in DOMAIN expenseData.attachedFiles |->
                                         Pick(expenseData.attachedFiles[i], {"id", "url"})]
                                ELSE Undefined
                           ELSE <<>>,
         items |-> [i \in DOMAIN expenseData.items |->
                       prepareItem(expenseData.items[i], isInvoice, isFundingRequest)]]
        @@ Pick(expenseData, {"id", "description", "longDescription", "type",
                              "privateMessage", "invoiceInfo", "tags"})

\* An absent array has no map and no length: reading them raises a TypeError; an absent
\* array is a property that is not set.  expenseData.attachedFiles?.map is undefined
\* for an absent attachedFiles
prepareExpenseForSubmit(expenseData) ==
    LET payeeIdField == IF IsString(Get(expenseData, <<"payee", "id">>)) THEN "id" ELSE "legacyId"
        isInvoice == Prop(expenseData, "type") = Str(INVOICE)
        isFundingRequest == Prop(expenseData, "type") = Str(FUNDING_REQUEST)
    IN  IF "items" \notin DOMAIN expenseData
        THEN TypeError
        ELSE
        [payee |-> IF Truthy(Prop(expenseData, "payee"))
                   THEN payeeIdField :> Prop(expenseData.payee, "id")
                   ELSE Prop(expenseData, "payee"),
         payoutMethod |-> Pick(Prop(expenseData, "payoutMethod"),
                               {"id", "name", "data", "isSaved", "type"}),
         payeeLocation |-> IF isInvoice
                           THEN Pick(Prop(expenseData, "payeeLocation"), {"address", "country"})
                           ELSE Null,
         attachedFiles |-> IF isInvoice
                           THEN IF "attachedFiles" \in DOMAIN expenseData
                                THEN [i \in DOMAIN expenseData.attachedFiles |->
                                         Pick(expenseData.attachedFiles[i], {"id", "url"})]
                                ELSE Undefined
                           ELSE <<>>,
         items |-> [i \in DOMAIN expenseData.items |->
                       prepareItem(expenseData.items[i], isInvoice, isFundingRequest)]]
        @@ Pick(expenseData, {"id", "description", "longDescription", "type",
                              "privateMessage", "invoiceInfo", "tags"})

RequiredFields == {<<"description">>, <<"payee">>, <<"payoutMethod">>, <<"currency">>}
RequiredLocationFields == {<<"payeeLocation", "country">>, <<"payeeLocation", "address">>}

\* Variants of validate with one rule changed
validate_NoCurrency(expense) ==
    LET required == requireFields(expense, RequiredFields \ {<<"currency">>})
        itemsErrors == [i \in DOMAIN expense.items |-> validateExpenseItem(expense, expense.items[i])]
        hasErrors == \E i \in DOMAIN itemsErrors : ~isEmpty(itemsErrors[i])
        withItems == IF Len(expense.items) > 0 /\ hasErrors
                     THEN ("items" :> itemsErrors) @@ required
                     ELSE required
        payoutMethodErrors == IF Truthy(Prop(expense, "payoutMethod"))
                              THEN validatePayoutMethod(expense.payoutMethod)
                              ELSE EmptyObject
        withPayoutMethod == IF Truthy(Prop(expense, "payoutMethod")) /\ ~isEmpty(payoutMethodErrors)
                            THEN ("payoutMethod" :> payoutMethodErrors) @@ withItems
                            ELSE withItems
    IN  IF Prop(expense, "type") = Str(INVOICE)
        THEN requireFields(expense, RequiredLocationFields) @@ withPayoutMethod
        ELSE withPayoutMethod

validate_LocationForAllTypes(expense) ==
    LET required == requireFields(expense, RequiredFields)
        itemsErrors == [i \in DOMAIN expense.items |-> validateExpenseItem(expense, expense.items[i])]
        hasErrors == \E i \in DOMAIN itemsErrors : ~isEmpty(itemsErrors[i])
        withItems == IF Len(expense.items) > 0 /\ hasErrors
                     THEN ("items" :> itemsErrors) @@ required
                     ELSE required
        payoutMethodErrors == IF Truthy(Prop(expense, "payoutMethod"))
                              THEN validatePayoutMethod(expense.payoutMethod)
                              ELSE EmptyObject
        withPayoutMethod == IF Truthy(Prop(expense, "payoutMethod")) /\ ~isEmpty(payoutMethodErrors)
                            THEN ("payoutMethod" :> payoutMethodErrors) @@ withItems
                            ELSE withItems
    IN  requireFields(expense, RequiredLocationFields) @@ withPayoutMethod

validate_OnlyFailingItems(expense) ==
    LET required == requireFields(expense, RequiredFields)
        itemsErrors == [i \in DOMAIN expense.items |-> validateExpenseItem(expense, expense.items[i])]
        hasErrors == \E i \in DOMAIN itemsErrors : ~isEmpty(itemsErrors[i])
        NotEmpty(e) == ~isEmpty(e)
        withItems == IF Len(expense.items) > 0 /\ hasErrors
                     THEN ("items" :> SelectSeq(itemsErrors, NotEmpty)) @@ required
                     ELSE required
        payoutMethodErrors == IF Truthy(Prop(expense, "payoutMethod"))
                              THEN validatePayoutMethod(expense.payoutMethod)
                              ELSE EmptyObject
        withPayoutMethod == IF Truthy(Prop(expense, "payoutMethod")) /\ ~isEmpty(payoutMethodErrors)
                            THEN ("payoutMethod" :> payoutMethodErrors) @@ withItems
                            ELSE withItems
    IN  IF Prop(expense, "type") = Str(INVOICE)
        THEN requireFields(expense, RequiredLocationFields) @@ withPayoutMethod
        ELSE withPayoutMethod

validate_LocationOverwrites(expense) ==
    LET required == requireFields(expense, RequiredFields)
        itemsErrors == [i \in DOMAIN expense.items |-> validateExpenseItem(expense, expense.items[i])]
        hasErrors == \E i \in DOMAIN itemsErrors : ~isEmpty(itemsErrors[i])
        withItems == IF Len(expense.items) > 0 /\ hasErrors
                     THEN ("items" :> itemsErrors) @@ required
                     ELSE required
        payoutMethodErrors == IF Truthy(Prop(expense, "payoutMethod"))
                              THEN validatePayoutMethod(expense.payoutMethod)
                              ELSE EmptyObject
        withPayoutMethod == IF Truthy(Prop(expense, "payoutMethod")) /\ ~isEmpty(payoutMethodErrors)
                            THEN ("payoutMethod" :> payoutMethodErrors) @@ withItems
                            ELSE withItems
    IN  IF Prop(expense, "type") = Str(INVOICE)
           /\ ~isEmpty(requireFields(expense, RequiredLocationFields))
        THEN requireFields(expense, RequiredLocationFields)
        ELSE withPayoutMethod

validate(expense) ==
    IF "items" \notin DOMAIN expense THEN TypeError ELSE
    LET required == requireFields(expense, RequiredFields)
        itemsErrors == [i \in DOMAIN expense.items |-> validateExpenseItem(expense, expense.items[i])]
        hasErrors == \E i \in DOMAIN itemsErrors : ~isEmpty(itemsErrors[i])
        withItems == IF Len(expense.items) > 0 /\ hasErrors
                     THEN ("items" :> itemsErrors) @@ required
                     ELSE required
        payoutMethodErrors == IF Truthy(Prop(expense, "payoutMethod"))
                              THEN validatePayoutMethod(expense.payoutMethod)
                              ELSE EmptyObject
        withPayoutMethod == IF Truthy(Prop(expense, "payoutMethod")) /\ ~isEmpty(payoutMethodErrors)
                            THEN ("payoutMethod" :> payoutMethodErrors) @@ withItems
                            ELSE withItems
    IN  IF Prop(expense, "type") = Str(INVOICE)
        THEN requireFields(expense, RequiredLocationFields) @@ withPayoutMethod
        ELSE withPayoutMethod
-----------------------------------------------------------------------------
(* Inputs *)

\* the collective prop of ExpenseForm
collective == [currency |-> Str("USD"), type |-> "COLLECTIVE", slug |-> "webpack"]

\* ExpenseFormBody: STEPS
PAYEE == "PAYEE"
EXPENSE == "EXPENSE"
STEPS == {PAYEE, EXPENSE}

\* ExpenseForm mounted without a form persister
DefaultProps ==
    [collective |-> collective, payoutProfiles |-> <<>>, formPersister |-> FALSE,
     shouldLoadValuesFromPersister |-> FALSE]

\* useState(stepOneCompleted ? STEPS.EXPENSE : STEPS.PAYEE)
InitialStep(formValues) == IF Truthy(Prop(formValues, "payoutMethod")) THEN EXPENSE ELSE PAYEE

MountedWithoutPersister ==
    /\ props = DefaultProps
    /\ initialVals = values
    /\ step = InitialStep(values)
    /\ persisted = Null
    /\ pendingEffects = Undefined
    /\ lastSave = Undefined
    /\ lastLoad = Undefined

\* no callback prop was called and no InviteCollectiveForm is mounted
NoCalls ==
    /\ onNextCalls = 0
    /\ onCancelCalls = 0
    /\ inviteValue = Undefined
    /\ onSaveCalls = 0
    /\ lastSaved = Undefined

PmIds == <<"pm1", "pm2", "pm3", "pm4", "pm5">>

\* a payout method declared by a payee, the i-th of its list
PayoutMethodOf(i, type, isSaved) ==
    [id |-> Str(PmIds[i]),
     name |-> Str(PmIds[i]),
     type |-> type,
     isSaved |-> isSaved,
     data |-> IF type = BANK_ACCOUNT THEN [currency |-> Str("USD")]
              ELSE IF type = OTHER_PAYOUT THEN [content |-> Str("cash")]
              ELSE EmptyObject]

PayoutMethodKinds == PayoutMethodType \X BOOLEAN

PayoutMethodLists ==
    UNION {{[i \in 1..n |-> PayoutMethodOf(i, f[i][1], f[i][2])] : f \in [1..n -> PayoutMethodKinds]}
           : n \in 0..MaxPayoutMethods}

\* the payees of the data model: absent, without declared methods, with declared methods
Payees ==
    {Null, Undefined}
    \cup {[id |-> Str("acc1"), type |-> ty, isActive |-> act] :
             ty \in CollectiveType, act \in BOOLEAN}
    \cup {[id |-> Str("acc1"), type |-> ty] : ty \in CollectiveType}
    \cup {[id |-> Str("acc1"), type |-> ty, isActive |-> act, payoutMethods |-> pms] :
             ty \in CollectiveType, act \in BOOLEAN, pms \in PayoutMethodLists}

-----------------------------------------------------------------------------
(* The payout methods offered for the payee of the form *)

\* ExpenseFormBody: allPayoutMethods = useMemo(() => getPayoutMethodsFromPayee(values.payee))
ComputeAllPayoutMethods ==
    /\ "ExpenseFormBody" \notin rendered
    /\ allPayoutMethods' = getPayoutMethodsFromPayee(Prop(values, "payee"))
    /\ rendered' = rendered \cup {"ExpenseFormBody"}
    /\ UNCHANGED <<callVars, formVars, payeeStepPayoutMethods, prepVars, bodyVars>>

\* ExpenseFormPayeeStep: allPayoutMethods = useMemo(() => getPayoutMethodsFromPayee(values.payee))
ComputePayeeStepPayoutMethods ==
    /\ "ExpenseFormPayeeStep" \notin rendered
    /\ payeeStepPayoutMethods' = getPayoutMethodsFromPayeeStep(values.payee)
    /\ rendered' = rendered \cup {"ExpenseFormPayeeStep"}
    /\ UNCHANGED <<callVars, formVars, allPayoutMethods, prepVars, bodyVars>>

\* the form holds any payee of the data model; no component has rendered yet
InitPayout ==
    /\ values \in {[getDefaultExpense(collective) EXCEPT !.payee = p] : p \in Payees}
    /\ errors = EmptyObject
    /\ validated = FALSE
    /\ hasValidate = FALSE
    /\ submitAttempts = 0
    /\ onSubmitCalls = 0
    /\ lastSubmitted = Undefined
    /\ allPayoutMethods = <<>>
    /\ payeeStepPayoutMethods = <<>>
    /\ rendered = {}
    /\ payload = Undefined
    /\ payloadAgain = Undefined
    /\ MountedWithoutPersister
    /\ NoCalls

NextPayout == ComputeAllPayoutMethods \/ ComputePayeeStepPayoutMethods

SpecPayout == InitPayout /\ [][NextPayout]_vars

-----------------------------------------------------------------------------
(* Properties of getPayoutMethodsFromPayee *)

\* the methods of the payee with isSaved = true, in their order
SavedMethodsOf(payee) ==
    IF Truthy(payee) /\ "payoutMethods" \in DOMAIN payee
    THEN SelectSeq(payee.payoutMethods, IsSavedPm) ELSE <<>>

IsActivePayee(payee) == Truthy(payee) /\ "isActive" \in DOMAIN payee /\ payee.isActive
HasSavedAccountBalance(payee) ==
    \E i \in DOMAIN SavedMethodsOf(payee) : SavedMethodsOf(payee)[i].type = ACCOUNT_BALANCE
OnlyAccountBalance(pms) == \A i \in DOMAIN pms : pms[i].type = ACCOUNT_BALANCE

\* C1: for a payee of a collective-family type the computed list holds only
\* ACCOUNT_BALANCE entries, whatever isActive and the declared methods are
C1_FamilyOnlyAccountBalance ==
    /\ ("ExpenseFormBody" \in rendered /\ Truthy(values.payee)
          /\ values.payee.type \in CollectiveFamilyTypes)
       => OnlyAccountBalance(allPayoutMethods)
    /\ ("ExpenseFormPayeeStep" \in rendered /\ Truthy(values.payee)
          /\ values.payee.type \in AccountTypesWithHost)
       => OnlyAccountBalance(payeeStepPayoutMethods)

C1_Witness ==
    /\ rendered = {"ExpenseFormBody", "ExpenseFormPayeeStep"}
    /\ Truthy(values.payee)
    /\ values.payee.type = "COLLECTIVE"
    /\ ~IsActivePayee(values.payee)
    /\ Len(SavedMethodsOf(values.payee)) = 3
    /\ \E i \in 1..3 : SavedMethodsOf(values.payee)[i].type = BANK_ACCOUNT
    /\ Len(allPayoutMethods) = 1
    /\ Len(payeeStepPayoutMethods) = 1

\* C2 as stated: an active payee without a saved ACCOUNT_BALANCE method gets the
\* synthesized entry followed by all its saved methods
C2_Original ==
    ("ExpenseFormBody" \in rendered /\ IsActivePayee(values.payee)
       /\ ~HasSavedAccountBalance(values.payee))
    => allPayoutMethods = <<NewAccountBalance>> \o SavedMethodsOf(values.payee)

\* C2 amended: an active payee without a saved ACCOUNT_BALANCE method gets the
\* synthesized entry followed by all its saved methods in their order when its type
\* is outside the collective family, and the synthesized entry alone when it is inside
C2_SynthesizedFirst ==
    /\ ("ExpenseFormBody" \in rendered /\ IsActivePayee(values.payee)
          /\ ~HasSavedAccountBalance(values.payee))
       => allPayoutMethods =
            IF values.payee.type \in CollectiveFamilyTypes
            THEN <<NewAccountBalance>>
            ELSE <<NewAccountBalance>> \o SavedMethodsOf(values.payee)
    /\ ("ExpenseFormPayeeStep" \in rendered /\ IsActivePayee(values.payee)
          /\ ~HasSavedAccountBalance(values.payee))
       => payeeStepPayoutMethods =
            IF values.payee.type \in AccountTypesWithHost
            THEN <<NewAccountBalance>>
            ELSE <<NewAccountBalance>> \o SavedMethodsOf(values.payee)

C2_Witness ==
    /\ rendered = {"ExpenseFormBody", "ExpenseFormPayeeStep"}
    /\ IsActivePayee(values.payee)
    /\ values.payee.type = "ORGANIZATION"
    /\ "payoutMethods" \in DOMAIN values.payee
    /\ Len(values.payee.payoutMethods) = 3
    /\ Len(SavedMethodsOf(values.payee)) = 2
    /\ SavedMethodsOf(values.payee)[1].type = BANK_ACCOUNT
    /\ SavedMethodsOf(values.payee)[2].type = OTHER_PAYOUT
    /\ Len(allPayoutMethods) = 3
    /\ allPayoutMethods[1] = NewAccountBalance

IsNew(pm) == pm.id = Str("new")

\* C3: the computed list holds at most one synthesized entry (id "new"), never
\* together with a saved ACCOUNT_BALANCE method of the payee; for an active payee
\* that has a saved ACCOUNT_BALANCE method nothing is injected
C3_NoDuplicateAccountBalance ==
    /\ "ExpenseFormBody" \in rendered =>
          /\ Len(SelectSeq(allPayoutMethods, IsNew)) <= 1
          /\ HasSavedAccountBalance(values.payee) => SelectSeq(allPayoutMethods, IsNew) = <<>>
    /\ "ExpenseFormPayeeStep" \in rendered =>
          /\ Len(SelectSeq(payeeStepPayoutMethods, IsNew)) <= 1
          /\ HasSavedAccountBalance(values.payee) => SelectSeq(payeeStepPayoutMethods, IsNew) = <<>>

C3_Witness ==
    /\ rendered = {"ExpenseFormBody", "ExpenseFormPayeeStep"}
    /\ IsActivePayee(values.payee)
    /\ HasSavedAccountBalance(values.payee)
    /\ Len(allPayoutMethods) = 2
    /\ allPayoutMethods = SavedMethodsOf(values.payee)

\* C4: for an absent payee, or one with isActive = false and a type outside the
\* collective family, the computed list is exactly the saved methods, in order
C4_InactiveGetsSavedMethods ==
    /\ ("ExpenseFormBody" \in rendered
          /\ (~Truthy(values.payee)
              \/ (~IsActivePayee(values.payee) /\ values.payee.type \notin CollectiveFamilyTypes)))
       => allPayoutMethods = SavedMethodsOf(values.payee)
    /\ ("ExpenseFormPayeeStep" \in rendered
          /\ (~Truthy(values.payee)
              \/ (~IsActivePayee(values.payee) /\ values.payee.type \notin AccountTypesWithHost)))
       => payeeStepPayoutMethods = SavedMethodsOf(values.payee)

C4_Witness ==
    /\ rendered = {"ExpenseFormBody", "ExpenseFormPayeeStep"}
    /\ Truthy(values.payee)
    /\ values.payee.type = "USER"
    /\ ~IsActivePayee(values.payee)
    /\ "payoutMethods" \in DOMAIN values.payee
    /\ Len(values.payee.payoutMethods) = 3
    /\ Len(allPayoutMethods) = 2
    /\ allPayoutMethods[1].id = Str("pm1")
    /\ allPayoutMethods[2].id = Str("pm3")
-----------------------------------------------------------------------------
(* The drafts of the data model *)

ItemIds == <<"item1", "item2", "item3", "item4">>

\* an item with every field set; an item with amount 0; an item added in this
\* session, without a file and without a date
ItemKinds == {"complete", "zeroAmount", "blank"}

ItemOf(i, kind) ==
    IF kind = "complete"
    THEN [id |-> Str(ItemIds[i]), description |-> Str("Taxi"), amount |-> Num(1200),
          url |-> Str("https://example.com/receipt.png"), incurredAt |-> Str("2020-05-01")]
    ELSE IF kind = "zeroAmount"
    THEN [id |-> Str(ItemIds[i]), description |-> Str("Taxi"), amount |-> Num(0),
          url |-> Str("https://example.com/receipt.png"), incurredAt |-> Str("2020-05-01")]
    ELSE ("__isNew" :> TRUE)
         @@ [id |-> Str(ItemIds[i]), description |-> Str("Hotel"), amount |-> Num(300)]

ItemLists ==
    UNION {{[i \in 1..n |-> ItemOf(i, f[i])] : f \in [1..n -> ItemKinds]} : n \in 0..MaxItems}

UserPayee ==
    [id |-> Str("acc1"), type |-> "USER", isActive |-> FALSE,
     payoutMethods |-> <<PayoutMethodOf(1, BANK_ACCOUNT, TRUE)>>,
     location |-> [address |-> Str("1 Main St"), country |-> Str("US")]]

\* a bank account without its currency
IncompleteBankAccount ==
    [id |-> Str("pm2"), name |-> Str("pm2"), type |-> BANK_ACCOUNT, isSaved |-> FALSE,
     data |-> EmptyObject]

DraftDescriptions == {Undefined, Str(""), Str("Lunch")}
DraftPayees == {Null, UserPayee}
DraftPayoutMethods == {Undefined, Null, PayoutMethodOf(1, BANK_ACCOUNT, TRUE), IncompleteBankAccount}
DraftCurrencies == {Undefined, Str("USD")}
DraftTypes == {Undefined, Str(INVOICE), Str(RECEIPT), Str(FUNDING_REQUEST)}
DraftLocations ==
    {Undefined} \cup {[address |-> a, country |-> c] :
                         a \in {Str(""), Str("1 Main St")}, c \in {Null, Str("US")}}

\* the expense prop of ExpenseForm
Expenses ==
    {[type |-> t, description |-> d, payee |-> p, payoutMethod |-> pm, currency |-> c,
      payeeLocation |-> loc, items |-> its] :
        t \in DraftTypes, d \in DraftDescriptions, p \in DraftPayees,
        pm \in DraftPayoutMethods, c \in DraftCurrencies, loc \in DraftLocations,
        its \in ItemLists}

\* ExpenseForm: initialValues={{ ...getDefaultExpense(collective), ...expense }}
initialValues(expense) == expense @@ getDefaultExpense(collective)

-----------------------------------------------------------------------------
(* ExpenseForm: changes and submission *)

\* Formik runs the validate prop (hasValidate && validate) after a change of the values
ValidationOnChange(newValues) == IF hasValidate THEN validate(newValues) ELSE EmptyObject

-----------------------------------------------------------------------------
(* ExpenseFormBody: the effects and the changes of the values *)

\* formik.dirty: the values differ from the initial values
Dirty(formValues) == formValues # initialVals

\* setLocationFromPayee(formik, payee) for a payee with a location: two setFieldValue
setLocationFromPayee(formValues, payee) ==
    LET country == IF Truthy(Prop(payee.location, "country"))
                   THEN payee.location.country ELSE Null
        address == IF Truthy(Prop(payee.location, "address"))
                   THEN payee.location.address ELSE Str("")
        location == IF Truthy(Prop(formValues, "payeeLocation"))
                    THEN formValues.payeeLocation ELSE EmptyObject
    IN  ("payeeLocation" :> ([country |-> country, address |-> address] @@ location))
        @@ formValues

\* The effects read the values of the render (current) and update the latest values
\* of the form (queued).
\* effect on [payoutProfiles]: the first profile is the default payee
defaultPayeeEffect(current, queued, payoutProfiles) ==
    IF ~Truthy(Prop(current, "payee")) /\ Len(payoutProfiles) > 0
    THEN ("payee" :> payoutProfiles[1]) @@ queued
    ELSE queued

\* effect on [values.payee]: pre-fill of the address
prefillLocationEffect(current, queued) ==
    IF /\ ~Truthy(Get(current, <<"payeeLocation", "address">>))
       /\ Truthy(Get(current, <<"payee", "location">>))
    THEN setLocationFromPayee(queued, current.payee)
    ELSE queued

\* Variant of loadEffectApplies that loads into a dirty form
loadEffectApplies_Dirty(shouldLoadValuesFromPersister, formPersister, dirty) ==
    shouldLoadValuesFromPersister /\ formPersister

\* effect on [formPersister, dirty]: the condition of the load
loadEffectApplies(shouldLoadValuesFromPersister, formPersister, dirty) ==
    shouldLoadValuesFromPersister /\ formPersister /\ ~dirty

\* the values that the load effect hands to setValues
loadedFormValues(formValues, coll) ==
    IF /\ Truthy(Prop(formValues, "payoutMethod"))
       /\ formValues.payoutMethod.type = BANK_ACCOUNT
       /\ ~Truthy(Get(coll, <<"host", "transferwise">>))
    THEN ("payoutMethod" :> Undefined) @@ formValues
    ELSE formValues

\* Variant of saveEffectRuns that saves the values of a form that is not dirty
saveEffectRuns_NotDirty(dirty, formPersister) == formPersister

\* effect on [formPersister, dirty, values]: the condition of the save
saveEffectRuns(dirty, formPersister) == dirty /\ formPersister

\* The effects of ExpenseFormBody after a render: at mount all of them, after a change
\* of the values those with a changed dependency.  A value set by an effect is a change
\* of the values, with a render and effects of its own.
EffectsPass ==
    /\ pendingEffects # Undefined
    /\ LET deps == pendingEffects
           dirty == Dirty(values)
           q1 == IF deps.mount
                 THEN defaultPayeeEffect(values, values, props.payoutProfiles) ELSE values
           q2 == IF deps.mount \/ deps.payee THEN prefillLocationEffect(values, q1) ELSE q1
           loads == /\ deps.mount \/ deps.dirty
                    /\ loadEffectApplies(props.shouldLoadValuesFromPersister,
                                         props.formPersister, dirty)
                    /\ Truthy(persisted)
           formValues == loadedFormValues(persisted, props.collective)
           q3 == IF loads THEN formValues ELSE q2
           saves == saveEffectRuns(dirty, props.formPersister)
           changed == loads \/ q3 # values
       IN  /\ values' = q3
           /\ persisted' = IF saves THEN values ELSE persisted
           /\ lastSave' = IF saves THEN [values |-> values, dirty |-> dirty] ELSE lastSave
           /\ lastLoad' = IF loads
                          THEN [loaded |-> persisted, applied |-> formValues, dirty |-> dirty]
                          ELSE lastLoad
           /\ pendingEffects' =
                 IF changed
                 THEN [mount |-> FALSE,
                       payee |-> loads \/ Prop(q3, "payee") # Prop(values, "payee"),
                       dirty |-> Dirty(q3) # dirty]
                 ELSE Undefined
           /\ errors' = IF changed THEN ValidationOnChange(q3) ELSE errors
           /\ validated' = IF changed THEN hasValidate ELSE validated
           /\ allPayoutMethods' = getPayoutMethodsFromPayee(Prop(q3, "payee"))
    /\ UNCHANGED <<callVars, hasValidate, submitAttempts, onSubmitCalls, lastSubmitted,
                   payeeStepPayoutMethods, rendered, prepVars, props, initialVals, step>>

\* A handler sets values of the form once the effects of the last render have run:
\* Formik validates the new values and ExpenseFormBody renders again
Change(newValues) ==
    /\ pendingEffects = Undefined
    /\ values' = newValues
    /\ errors' = ValidationOnChange(newValues)
    /\ validated' = hasValidate
    /\ pendingEffects' = [mount |-> FALSE,
                          payee |-> Prop(newValues, "payee") # Prop(values, "payee"),
                          dirty |-> Dirty(newValues) # Dirty(values)]
    /\ allPayoutMethods' = getPayoutMethodsFromPayee(Prop(newValues, "payee"))
    /\ UNCHANGED <<callVars, hasValidate, submitAttempts, onSubmitCalls, lastSubmitted,
                   payeeStepPayoutMethods, rendered, prepVars, props, initialVals, step,
                   persisted, lastSave, lastLoad>>

\* the description Field of ExpenseFormBody: handleChange
ChangeDescription(text) ==
    /\ Str(text) # Prop(values, "description")
    /\ Change(("description" :> Str(text)) @@ values)

\* A submit of the form: Formik runs the validate prop and stops on errors; otherwise
\* it calls the onSubmit of ExpenseForm, which validates and calls the onSubmit prop
SubmitForm_NoValidate ==
    /\ pendingEffects = Undefined
    /\ submitAttempts < MaxSubmits
    /\ submitAttempts' = submitAttempts + 1
    /\ validated' = TRUE
    /\ IF ~isEmpty(ValidationOnChange(values))
       THEN /\ errors' = ValidationOnChange(values)
            /\ UNCHANGED <<hasValidate, onSubmitCalls, lastSubmitted>>
       ELSE /\ onSubmitCalls' = onSubmitCalls + 1
            /\ lastSubmitted' = values
            /\ errors' = EmptyObject
            /\ UNCHANGED hasValidate
    /\ UNCHANGED <<callVars, values, memoVars, prepVars, bodyVars>>

SubmitForm ==
    /\ pendingEffects = Undefined
    /\ submitAttempts < MaxSubmits
    /\ submitAttempts' = submitAttempts + 1
    /\ validated' = TRUE
    /\ IF ~isEmpty(ValidationOnChange(values))
       THEN /\ errors' = ValidationOnChange(values)
            /\ UNCHANGED <<hasValidate, onSubmitCalls, lastSubmitted>>
       ELSE IF ~isEmpty(validate(values))
       THEN /\ hasValidate' = TRUE
            /\ errors' = validate(values)
            /\ UNCHANGED <<onSubmitCalls, lastSubmitted>>
       ELSE /\ onSubmitCalls' = onSubmitCalls + 1
            /\ lastSubmitted' = values
            /\ errors' = EmptyObject
            /\ UNCHANGED hasValidate
    /\ UNCHANGED <<callVars, values, memoVars, prepVars, bodyVars>>

\* the form is mounted with any expense of the data model, with validateOnChange set or not
InitValidate ==
    /\ values \in {initialValues(e) : e \in Expenses}
    /\ errors = EmptyObject
    /\ validated = FALSE
    /\ hasValidate \in BOOLEAN
    /\ submitAttempts = 0
    /\ onSubmitCalls = 0
    /\ lastSubmitted = Undefined
    /\ allPayoutMethods = getPayoutMethodsFromPayee(values.payee)
    /\ payeeStepPayoutMethods = <<>>
    /\ rendered = {"ExpenseFormBody"}
    /\ payload = Undefined
    /\ payloadAgain = Undefined
    /\ MountedWithoutPersister
    /\ NoCalls

NextValidate ==
    \/ \E text \in {"", "Lunch"} : ChangeDescription(text)
    \/ EffectsPass
    \/ SubmitForm

SpecValidate == InitValidate /\ [][NextValidate]_vars
-----------------------------------------------------------------------------
(* Properties of ExpenseForm's submission and of validate *)

\* C5: the onSubmit prop is called only by a submit attempt, only when validate
\* returns an empty mapping for the values, and with these values; a submit attempt
\* with values that validate rejects calls nothing and sets the errors on the form
C5_OnSubmitOnlyWhenValid ==
    [][/\ onSubmitCalls' # onSubmitCalls => submitAttempts' # submitAttempts
       /\ submitAttempts' # submitAttempts =>
             IF isEmpty(validate(values))
             THEN onSubmitCalls' = onSubmitCalls + 1 /\ lastSubmitted' = values
             ELSE /\ onSubmitCalls' = onSubmitCalls
                  /\ lastSubmitted' = lastSubmitted
                  /\ errors' = validate(values)
                  /\ ~isEmpty(errors')]_vars

\* a rejected attempt, a correction of the description, then an accepted attempt
C5_Witness ==
    /\ submitAttempts = 2
    /\ onSubmitCalls = 1
    /\ lastSubmitted = values
    /\ hasValidate
    /\ values.description = Str("Lunch")
    /\ Len(values.items) = 2

RequiredNames == {"description", "payee", "payoutMethod", "currency"}

\* C6: after a validation, each of description, payee, payoutMethod, currency that is
\* missing or empty has the error FORM_FIELD_REQUIRED, and description, payee and
\* currency have no key when they are present and non-empty
C6_RequiredFields ==
    validated =>
        \A f \in RequiredNames :
            /\ ~Truthy(Prop(values, f)) => (f \in DOMAIN errors /\ errors[f] = FORM_FIELD_REQUIRED)
            /\ (f # "payoutMethod" /\ Truthy(Prop(values, f))) => f \notin DOMAIN errors

C6_Witness ==
    /\ validated
    /\ values.description = Str("")
    /\ values.payee = Null
    /\ values.payoutMethod = Null
    /\ values.currency = Str("USD")
    /\ values.type = Str(RECEIPT)
    /\ values.items = <<>>
    /\ DOMAIN errors = {"description", "payee", "payoutMethod"}

\* C7: after a validation, errors has a payeeLocation entry only for an invoice, and for
\* an invoice country and address have FORM_FIELD_REQUIRED exactly when missing or empty
C7_PayeeLocationOnlyForInvoice ==
    validated =>
        /\ "payeeLocation" \in DOMAIN errors => values.type = Str(INVOICE)
        /\ values.type = Str(INVOICE) =>
              \A sub \in {"country", "address"} :
                  ~Truthy(Get(values, <<"payeeLocation", sub>>))
                  <=> /\ "payeeLocation" \in DOMAIN errors
                      /\ sub \in DOMAIN errors.payeeLocation
                      /\ errors.payeeLocation[sub] = FORM_FIELD_REQUIRED

C7_Witness ==
    /\ validated
    /\ values.type = Str(INVOICE)
    /\ values.payeeLocation = [address |-> Str("1 Main St"), country |-> Null]
    /\ "payeeLocation" \in DOMAIN errors
    /\ errors.payeeLocation = [country |-> FORM_FIELD_REQUIRED]

ItemFails(expense, i) == ~isEmpty(validateExpenseItem(expense, expense.items[i]))

\* C8: after a validation, errors.items is set exactly when some item of the draft
\* fails, and then it has one entry per item, the error mapping of that item
C8_ItemsErrorsAligned ==
    validated =>
        /\ "items" \in DOMAIN errors <=> \E i \in DOMAIN values.items : ItemFails(values, i)
        /\ "items" \in DOMAIN errors =>
              /\ Len(errors.items) = Len(values.items)
              /\ \A i \in DOMAIN values.items :
                    errors.items[i] = validateExpenseItem(values, values.items[i])

C8_Witness ==
    /\ validated
    /\ Len(values.items) = 2
    /\ "items" \in DOMAIN errors
    /\ isEmpty(errors.items[1])
    /\ errors.items[2] = [amount |-> FORM_FIELD_REQUIRED]

\* C9: after a validation, errors is the union of what the four rules report: every
\* error of a rule is in errors, unchanged, and errors has no other key
C9_RulesIndependent ==
    validated =>
        LET required == requireFields(values, RequiredFields)
            hasItemErrors == \E i \in DOMAIN values.items : ItemFails(values, i)
            payoutMethodErrors == IF Truthy(values.payoutMethod)
                                  THEN validatePayoutMethod(values.payoutMethod)
                                  ELSE EmptyObject
            location == IF values.type = Str(INVOICE)
                        THEN requireFields(values, RequiredLocationFields)
                        ELSE EmptyObject
        IN  /\ \A k \in DOMAIN required : k \in DOMAIN errors /\ errors[k] = required[k]
            /\ hasItemErrors =>
                  /\ "items" \in DOMAIN errors
                  /\ \A i \in DOMAIN values.items :
                        errors.items[i] = validateExpenseItem(values, values.items[i])
            /\ ~isEmpty(payoutMethodErrors) =>
                  ("payoutMethod" \in DOMAIN errors /\ errors.payoutMethod = payoutMethodErrors)
            /\ \A k \in DOMAIN location : k \in DOMAIN errors /\ errors[k] = location[k]
            /\ DOMAIN errors = DOMAIN required
                               \cup (IF hasItemErrors THEN {"items"} ELSE {})
                               \cup (IF isEmpty(payoutMethodErrors) THEN {} ELSE {"payoutMethod"})
                               \cup DOMAIN location

\* the four rules report an error on the same draft
C9_Witness ==
    /\ validated
    /\ DOMAIN errors = {"description", "currency", "items", "payoutMethod", "payeeLocation"}
    /\ errors.description = FORM_FIELD_REQUIRED
    /\ errors.payoutMethod = [data |-> [currency |-> FORM_FIELD_REQUIRED]]
    /\ errors.payeeLocation = [country |-> FORM_FIELD_REQUIRED, address |-> FORM_FIELD_REQUIRED]
    /\ Len(errors.items) = 1
-----------------------------------------------------------------------------
(* prepareExpenseForSubmit applied to the values of the form *)

\* a profile created on the fly by the collective picker: its id is a number
LegacyPayee == [id |-> Num(4242), type |-> "USER", name |-> Str("New profile")]

AttachedFile == [id |-> Str("file1"), url |-> Str("https://example.com/invoice.pdf"),
                 name |-> Str("invoice.pdf")]

PreparePayees == {Null, Undefined, UserPayee, LegacyPayee}
PreparePayoutMethods ==
    {Undefined, PayoutMethodOf(1, BANK_ACCOUNT, TRUE) @@ [currency |-> Str("USD")]}
PrepareLocations ==
    {[address |-> Str(""), country |-> Null],
     [address |-> Str("1 Main St"), country |-> Str("US"), structured |-> Null]}

\* the drafts handed to prepareExpenseForSubmit
PrepareExpenses ==
    {[type |-> t, description |-> Str("Lunch"), payee |-> p, payoutMethod |-> pm,
      payeeLocation |-> loc, attachedFiles |-> files, items |-> its] :
        t \in DraftTypes, p \in PreparePayees, pm \in PreparePayoutMethods,
        loc \in PrepareLocations, files \in {<<>>, <<AttachedFile>>}, its \in ItemLists}

\* the consumer of the form computes the payload of the current values
PrepareForSubmit ==
    /\ payload = Undefined
    /\ payloadAgain = Undefined
    /\ MountedWithoutPersister
    /\ payload' = prepareExpenseForSubmit(values)
    /\ UNCHANGED <<callVars, formVars, memoVars, payloadAgain, bodyVars>>

InitPrepare ==
    /\ values \in {initialValues(e) : e \in PrepareExpenses}
    /\ errors = EmptyObject
    /\ validated = FALSE
    /\ hasValidate = FALSE
    /\ submitAttempts = 0
    /\ onSubmitCalls = 0
    /\ lastSubmitted = Undefined
    /\ allPayoutMethods = getPayoutMethodsFromPayee(values.payee)
    /\ payeeStepPayoutMethods = <<>>
    /\ rendered = {"ExpenseFormBody"}
    /\ payload = Undefined
    /\ payloadAgain = Undefined
    /\ MountedWithoutPersister
    /\ NoCalls

\* the payload is handed to prepareExpenseForSubmit as a draft
PrepareAgain ==
    /\ payload # Undefined
    /\ payloadAgain = Undefined
    /\ payloadAgain' = prepareExpenseForSubmit(payload)
    /\ UNCHANGED <<callVars, formVars, memoVars, payload, bodyVars>>

NextPrepare == PrepareForSubmit \/ PrepareAgain

SpecPrepare == InitPrepare /\ [][NextPrepare]_vars

\* C10: the payload maps a present payee to an object with one key whose value is the
\* payee's id: the key is id when the id is a string and legacyId otherwise
C10_PayeeReference ==
    (payload # Undefined /\ Truthy(values.payee)) =>
        /\ payload.payee = (IF IsString(values.payee.id) THEN "id" ELSE "legacyId")
                           :> values.payee.id
        /\ Cardinality(DOMAIN payload.payee) = 1

C10_Witness ==
    /\ payload # Undefined
    /\ values.payee = LegacyPayee
    /\ payload.payee = [legacyId |-> Num(4242)]

\* C11: the payload of an invoice holds the address and the country of the draft's
\* payeeLocation and the draft's files reduced to their id and url; the payload of
\* any other type of expense holds the payeeLocation null and no attached file
C11_LocationAndFilesOnlyForInvoice ==
    payload # Undefined =>
        IF values.type = Str(INVOICE)
        THEN /\ payload.payeeLocation = [address |-> values.payeeLocation.address,
                                         country |-> values.payeeLocation.country]
             /\ Len(payload.attachedFiles) = Len(values.attachedFiles)
             /\ \A i \in DOMAIN values.attachedFiles :
                    payload.attachedFiles[i] = [id |-> values.attachedFiles[i].id,
                                                url |-> values.attachedFiles[i].url]
        ELSE /\ payload.payeeLocation = Null
             /\ payload.attachedFiles = <<>>

\* an invoice with a file and a location that holds more than address and country
C11_Witness ==
    /\ payload # Undefined
    /\ values.type = Str(INVOICE)
    /\ values.attachedFiles = <<AttachedFile>>
    /\ "structured" \in DOMAIN values.payeeLocation
    /\ payload.payeeLocation = [address |-> Str("1 Main St"), country |-> Str("US")]
    /\ payload.attachedFiles =
           <<[id |-> Str("file1"), url |-> Str("https://example.com/invoice.pdf")]>>

ItemOutputFields == {"id", "url", "description", "incurredAt", "amount"}

\* C12: the payload keeps the items of the draft in their order; an item of the payload
\* holds the id of the draft's item only when this item is not flagged __isNew, its url
\* only when the type is neither INVOICE nor FUNDING_REQUEST, its description,
\* incurredAt and amount in every case, and no other field
C12_ItemsReduced ==
    payload # Undefined =>
        /\ Len(payload.items) = Len(values.items)
        /\ \A i \in DOMAIN values.items :
              LET item == values.items[i]
                  out == payload.items[i]
                  isNew == "__isNew" \in DOMAIN item /\ item["__isNew"]
                  keepsUrl == values.type \notin {Str(INVOICE), Str(FUNDING_REQUEST)}
              IN  /\ DOMAIN out \subseteq ItemOutputFields
                  /\ "id" \in DOMAIN out <=> (~isNew /\ "id" \in DOMAIN item)
                  /\ "url" \in DOMAIN out <=> (keepsUrl /\ "url" \in DOMAIN item)
                  /\ \A k \in {"description", "incurredAt", "amount"} :
                         k \in DOMAIN out <=> k \in DOMAIN item
                  /\ \A k \in DOMAIN out : out[k] = item[k]

\* an invoice with a saved item followed by an item added in this session
C12_Witness ==
    /\ payload # Undefined
    /\ values.type = Str(INVOICE)
    /\ values.items = <<ItemOf(1, "complete"), ItemOf(2, "blank")>>
    /\ payload.items = <<[id |-> Str("item1"), description |-> Str("Taxi"),
                          amount |-> Num(1200), incurredAt |-> Str("2020-05-01")],
                         [description |-> Str("Hotel"), amount |-> Num(300)]>>

PayloadFields ==
    {"id", "description", "longDescription", "type", "privateMessage", "invoiceInfo", "tags",
     "payee", "payoutMethod", "payeeLocation", "attachedFiles", "items"}
PayoutMethodOutputFields == {"id", "name", "data", "isSaved", "type"}

\* C13: the payload has no top-level key other than id, description, longDescription,
\* type, privateMessage, invoiceInfo, tags, payee, payoutMethod, payeeLocation,
\* attachedFiles and items, and its payoutMethod has no key other than id, name, data,
\* isSaved and type: the currency and the other fields of the draft are not forwarded
C13_OnlyListedKeys ==
    payload # Undefined =>
        /\ DOMAIN payload \subseteq PayloadFields
        /\ DOMAIN payload.payoutMethod \subseteq PayoutMethodOutputFields

\* a draft with a currency and a payout method that holds a currency
C13_Witness ==
    /\ payload # Undefined
    /\ values.currency = Str("USD")
    /\ Truthy(values.payoutMethod)
    /\ "currency" \in DOMAIN values.payoutMethod
    /\ "currency" \notin DOMAIN payload
    /\ DOMAIN payload.payoutMethod = PayoutMethodOutputFields

\* C14 as stated: for every draft, a payee with an id that is not a string included,
\* prepareExpenseForSubmit applied to its own result returns this result
C14_Original == payloadAgain # Undefined => payloadAgain = payload

\* C14: prepareExpenseForSubmit applied to its own result returns this result for every
\* draft whose payee is absent or has a string id, drafts with __isNew items included;
\* for a draft whose payee has an id that is not a string the two results agree on
\* every field other than payee, and the payee of the second is {legacyId: undefined}
C14_IdempotentForStringIds ==
    payloadAgain # Undefined =>
        /\ DOMAIN payloadAgain = DOMAIN payload
        /\ \A k \in DOMAIN payload \ {"payee"} : payloadAgain[k] = payload[k]
        /\ IF Truthy(values.payee) /\ ~IsString(values.payee.id)
           THEN payloadAgain.payee = [legacyId |-> Undefined]
           ELSE payloadAgain.payee = payload.payee

\* a draft with a payee that has a string id and an item added in this session
C14_Witness ==
    /\ payloadAgain # Undefined
    /\ values.payee = UserPayee
    /\ \E i \in DOMAIN values.items : "__isNew" \in DOMAIN values.items[i]
    /\ payloadAgain = payload
    /\ payloadAgain.payee = [id |-> Str("acc1")]
-----------------------------------------------------------------------------
(* The three functions applied to drafts with absent fields *)

\* obj without the properties of a set of names
Without(obj, names) == [k \in DOMAIN obj \ names |-> obj[k]]

OptionalFields == {"payee", "payoutMethod", "payeeLocation", "attachedFiles", "tags", "items"}

\* drafts with every payee of the data model, and drafts with any set of fields absent
TotalDrafts ==
    {[type |-> Str(INVOICE), description |-> Str("Lunch"), currency |-> Str("USD"),
      payee |-> p, payoutMethod |-> Undefined, payeeLocation |-> Undefined,
      attachedFiles |-> <<>>, tags |-> <<Str("food")>>, items |-> <<>>] : p \in Payees}
    \cup
    {Without([type |-> t, description |-> Str("Lunch"), currency |-> Str("USD"),
              payee |-> p, payoutMethod |-> pm, payeeLocation |-> loc,
              attachedFiles |-> <<AttachedFile>>, tags |-> <<Str("food")>>, items |-> its],
             absent) :
        t \in DraftTypes, p \in {Null, UserPayee},
        pm \in {Null, PayoutMethodOf(1, BANK_ACCOUNT, TRUE)},
        loc \in {Null, Undefined, [address |-> Str("1 Main St"), country |-> Str("US")]},
        its \in {<<>>, <<ItemOf(1, "blank")>>}, absent \in SUBSET OptionalFields}

\* validate is called on the values; errors holds its outcome
RunValidate ==
    /\ ~validated
    /\ errors' = validate(values)
    /\ validated' = TRUE
    /\ UNCHANGED <<callVars, values, hasValidate, submitAttempts, onSubmitCalls, lastSubmitted,
                   memoVars, prepVars, bodyVars>>

InitTotal ==
    /\ values \in TotalDrafts
    /\ errors = EmptyObject
    /\ validated = FALSE
    /\ hasValidate = FALSE
    /\ submitAttempts = 0
    /\ onSubmitCalls = 0
    /\ lastSubmitted = Undefined
    /\ allPayoutMethods = <<>>
    /\ payeeStepPayoutMethods = <<>>
    /\ rendered = {"ExpenseFormPayeeStep"}
    /\ payload = Undefined
    /\ payloadAgain = Undefined
    /\ MountedWithoutPersister
    /\ NoCalls

NextTotal == ComputeAllPayoutMethods \/ RunValidate \/ PrepareForSubmit

SpecTotal == InitTotal /\ [][NextTotal]_vars

\* C15: for every payee, an absent one included, and every draft, drafts without payee,
\* payoutMethod, payeeLocation, attachedFiles or tags included, getPayoutMethodsFromPayee
\* returns a list, validate returns a mapping and prepareExpenseForSubmit returns a
\* payload: none of them raises a fault
C15_Total ==
    "items" \in DOMAIN values =>
        /\ DOMAIN allPayoutMethods = 1..Len(allPayoutMethods)
        /\ errors # TypeError
        /\ payload # TypeError
        /\ payload # Undefined =>
              {"payee", "payoutMethod", "payeeLocation", "attachedFiles", "items"}
                  \subseteq DOMAIN payload

\* the three functions have returned for an invoice without payee, payoutMethod,
\* payeeLocation, attachedFiles and tags
C15_Witness ==
    /\ DOMAIN values = {"type", "description", "currency", "items"}
    /\ values.type = Str(INVOICE)
    /\ "ExpenseFormBody" \in rendered
    /\ allPayoutMethods = <<>>
    /\ validated
    /\ {"payee", "payoutMethod", "payeeLocation"} \subseteq DOMAIN errors
    /\ payload # Undefined
    /\ payload.payee = Undefined
    /\ payload.payoutMethod = EmptyObject
    /\ payload.payeeLocation = EmptyObject
    /\ payload.attachedFiles = Undefined
-----------------------------------------------------------------------------
(* ExpenseFormBody: the form with its two steps, its effects and its persister *)

\* a profile without saved payout methods and without a location
NewcomerPayee ==
    [id |-> Str("acc2"), type |-> "USER", isActive |-> FALSE, payoutMethods |-> <<>>]

FormProfiles == {<<>>, <<UserPayee, NewcomerPayee>>}

FormCollectives ==
    {collective,
     [host |-> [slug |-> "host"]] @@ collective,
     [host |-> [slug |-> "host", transferwise |-> [availableCurrencies |-> <<>>]]]
         @@ collective}

\* the props with and without profiles, persister and load, and the three collectives
\* for a form that loads the values of its persister
FormProps ==
    {[collective |-> collective, payoutProfiles |-> profiles, formPersister |-> fp,
      shouldLoadValuesFromPersister |-> load] :
        profiles \in FormProfiles, fp \in BOOLEAN, load \in BOOLEAN}
    \cup
    {[collective |-> c, payoutProfiles |-> <<UserPayee, NewcomerPayee>>,
      formPersister |-> TRUE, shouldLoadValuesFromPersister |-> TRUE] :
        c \in FormCollectives}

\* the expense prop: none for a new expense, or the expense that is edited
FormExpenses ==
    {EmptyObject,
     [type |-> Str(INVOICE), description |-> Str("Lunch"), payee |-> UserPayee,
      payoutMethod |-> PayoutMethodOf(1, BANK_ACCOUNT, TRUE),
      payeeLocation |-> [address |-> Str("1 Main St"), country |-> Str("US")],
      items |-> <<ItemOf(1, "complete")>>]}

\* the values saved by the persister in an earlier session
PersistedDrafts ==
    {("type" :> Str(RECEIPT))
       @@ [getDefaultExpense(collective) EXCEPT
              !.description = Str("Lunch"), !.payee = UserPayee, !.payoutMethod = pm] :
        pm \in {Undefined, PayoutMethodOf(1, BANK_ACCOUNT, TRUE),
                PayoutMethodOf(2, OTHER_PAYOUT, TRUE)}}

\* the conditions of ExpenseFormBody
hasBaseFormFieldsCompleted ==
    Truthy(Prop(values, "type")) /\ Truthy(Prop(values, "description"))
stepOneCompleted_PayeeOnly == Truthy(Prop(values, "payee"))
stepOneCompleted == Truthy(Prop(values, "payoutMethod"))
stepTwoCompleted == stepOneCompleted /\ hasBaseFormFieldsCompleted /\ Len(values.items) > 0

\* the disabled attributes of the payout method select and of the buttons
PayoutMethodSelectDisabled == ~Truthy(Prop(values, "payee"))
NextDisabled == ~stepOneCompleted
BackDisabled == ~stepOneCompleted
SubmitDisabled == ~stepTwoCompleted \/ ~isEmpty(errors)

\* the steps are displayed once a type is chosen; only one of them is shown
OnStep(s) == Truthy(Prop(values, "type")) /\ step = s

\* ExpenseTypeRadioSelect: handleChange
ChangeType(type) == Change(("type" :> Str(type)) @@ values)

\* Variant of PickPayee that keeps the selected payout method
PickPayee_KeepsPayoutMethod(payee) ==
    /\ OnStep(PAYEE)
    /\ LET picked == [payee |-> payee] @@ values
       IN  Change(IF Truthy(Prop(payee, "location"))
                  THEN setLocationFromPayee(picked, payee)
                  ELSE picked)

\* CollectivePicker: onChange sets the payee, resets the payout method and sets the
\* location from the payee; the read of payee.location.country raises a TypeError for
\* a payee without location, after the first two setFieldValue
PickPayee(payee) ==
    /\ OnStep(PAYEE)
    /\ LET picked == [payee |-> payee, payoutMethod |-> Null] @@ values
       IN  Change(IF Truthy(Prop(payee, "location"))
                  THEN setLocationFromPayee(picked, payee)
                  ELSE picked)

\* the methods that PayoutMethodSelect offers: those of the list, or a new one
PayoutMethodOptions ==
    {allPayoutMethods[i] : i \in DOMAIN allPayoutMethods} \cup {IncompleteBankAccount}

\* PayoutMethodSelect: onChange={setPayoutMethod}
SetPayoutMethod(value) ==
    /\ OnStep(PAYEE)
    /\ ~PayoutMethodSelectDisabled
    /\ Change(("payoutMethod" :> value) @@ values)

\* the address field of an invoice
ChangeAddress(text) ==
    /\ OnStep(PAYEE)
    /\ Prop(values, "type") = Str(INVOICE)
    /\ LET location == IF Truthy(Prop(values, "payeeLocation"))
                       THEN values.payeeLocation ELSE EmptyObject
       IN  Change(("payeeLocation" :> (("address" :> Str(text)) @@ location)) @@ values)

\* the description field of the expense step
TypeDescription(text) == OnStep(EXPENSE) /\ ChangeDescription(text)

\* addNewExpenseItem(formik), and the item filled in
AddItem ==
    /\ OnStep(EXPENSE)
    /\ Len(values.items) < MaxFormItems
    /\ Change([values EXCEPT !.items = Append(@, ItemOf(Len(@) + 1, "complete"))])

\* Variant of GoNext for a Next button that is never disabled
GoNext_AlwaysEnabled ==
    /\ pendingEffects = Undefined
    /\ OnStep(PAYEE)
    /\ step' = EXPENSE
    /\ UNCHANGED <<callVars, formVars, memoVars, prepVars, props, initialVals, persisted,
                   pendingEffects, lastSave, lastLoad>>

\* Next button of the payee step: setStep(STEPS.EXPENSE)
GoNext ==
    /\ pendingEffects = Undefined
    /\ OnStep(PAYEE)
    /\ ~NextDisabled
    /\ step' = EXPENSE
    /\ UNCHANGED <<callVars, formVars, memoVars, prepVars, props, initialVals, persisted,
                   pendingEffects, lastSave, lastLoad>>

\* Back button of the expense step: setStep(STEPS.PAYEE)
GoBack ==
    /\ pendingEffects = Undefined
    /\ OnStep(EXPENSE)
    /\ ~BackDisabled
    /\ step' = PAYEE
    /\ UNCHANGED <<callVars, formVars, memoVars, prepVars, props, initialVals, persisted,
                   pendingEffects, lastSave, lastLoad>>

\* submit button of the expense step
ClickSubmit ==
    /\ OnStep(EXPENSE)
    /\ ~SubmitDisabled
    /\ submitAttempts < MaxFormSubmits
    /\ SubmitForm

\* ExpenseForm is mounted: Formik holds the initial values, ExpenseFormBody has rendered
\* once and its effects are to run
Init ==
    /\ props \in FormProps
    /\ initialVals \in {initialValues(e) : e \in FormExpenses}
    /\ values = initialVals
    /\ step = InitialStep(initialVals)
    /\ persisted \in (IF props.formPersister /\ props.shouldLoadValuesFromPersister
                       THEN {Null} \cup PersistedDrafts ELSE {Null})
    /\ pendingEffects = [mount |-> TRUE, payee |-> TRUE, dirty |-> TRUE]
    /\ lastSave = Undefined
    /\ lastLoad = Undefined
    /\ errors = EmptyObject
    /\ validated = FALSE
    /\ hasValidate = FALSE
    /\ submitAttempts = 0
    /\ onSubmitCalls = 0
    /\ lastSubmitted = Undefined
    /\ allPayoutMethods = getPayoutMethodsFromPayee(values.payee)
    /\ payeeStepPayoutMethods = <<>>
    /\ rendered = {"ExpenseFormBody"}
    /\ payload = Undefined
    /\ payloadAgain = Undefined
    /\ NoCalls

Next ==
    \/ EffectsPass
    \/ \E type \in {INVOICE, RECEIPT} : ChangeType(type)
    \/ \E i \in DOMAIN props.payoutProfiles : PickPayee(props.payoutProfiles[i])
    \/ \E value \in PayoutMethodOptions : SetPayoutMethod(value)
    \/ \E text \in {"", "1 Main St"} : ChangeAddress(text)
    \/ \E text \in {"", "Lunch"} : TypeDescription(text)
    \/ AddItem
    \/ GoNext
    \/ GoBack
    \/ ClickSubmit

Spec == Init /\ [][Next]_vars
-----------------------------------------------------------------------------
(* Properties of ExpenseFormBody *)

\* C16 as stated: when the list of payout methods of the current payee is empty, the
\* payout method select, the Next button and the submit button are disabled
C16_Original ==
    Len(allPayoutMethods) = 0 =>
        PayoutMethodSelectDisabled /\ NextDisabled /\ SubmitDisabled

\* C16: the payout method select is disabled when no payee is set, in which case the
\* list is empty, and the Next button and the submit button are disabled when no payout
\* method is selected; a disabled control does nothing: no payout method is selected
\* through a disabled select, the step does not change and no submit is attempted
C16_DisabledWithoutPayeeOrMethod ==
    [][/\ ~Truthy(Prop(values, "payee")) =>
              PayoutMethodSelectDisabled /\ Len(allPayoutMethods) = 0
       /\ ~Truthy(Prop(values, "payoutMethod")) => NextDisabled /\ SubmitDisabled
       /\ (pendingEffects = Undefined /\ PayoutMethodSelectDisabled) =>
              \/ ~Truthy(Prop(values', "payoutMethod"))
              \/ Prop(values', "payoutMethod") = Prop(values, "payoutMethod")
       /\ NextDisabled => step' = step
       /\ SubmitDisabled => submitAttempts' = submitAttempts]_vars

\* the Next button was used for a payee whose list of payout methods is empty
C16_Witness ==
    /\ InitialStep(initialVals) = PAYEE
    /\ step = EXPENSE
    /\ values.payee = NewcomerPayee
    /\ Len(allPayoutMethods) = 0
    /\ values.payoutMethod = IncompleteBankAccount
    /\ ~PayoutMethodSelectDisabled

\* C17: saveValues is called only by the save effect of a render of a dirty form with a
\* persister, once for this render and with the values of this render; when the effects
\* have run for a dirty form with a persister, the persister holds the values of the form
C17_SaveWhenDirty ==
    [][/\ (lastSave' # lastSave \/ persisted' # persisted) =>
              /\ pendingEffects # Undefined
              /\ props.formPersister
              /\ Dirty(values)
              /\ persisted' = values
              /\ lastSave' = [values |-> values, dirty |-> TRUE]
       /\ lastSave # Undefined => lastSave.dirty /\ props.formPersister
       /\ (pendingEffects = Undefined /\ Dirty(values) /\ props.formPersister) =>
              persisted = values /\ lastSave = [values |-> values, dirty |-> TRUE]]_vars

\* the values changed by the user are saved
C17_Witness ==
    /\ pendingEffects = Undefined
    /\ lastLoad = Undefined
    /\ Dirty(values)
    /\ values.description = Str("Lunch")
    /\ initialVals.description = Str("")
    /\ persisted = values
    /\ lastSave = [values |-> values, dirty |-> TRUE]

\* C18: the step is PAYEE or EXPENSE; at mount it is EXPENSE when the initial values
\* hold a payout method and PAYEE otherwise; it changes only from PAYEE to EXPENSE and
\* from EXPENSE to PAYEE, only while a payout method is selected, and by an event that
\* changes nothing else
C18_StepMachine ==
    [][/\ step \in STEPS /\ step' \in STEPS
       /\ (pendingEffects # Undefined /\ pendingEffects.mount) =>
              step = (IF Truthy(Prop(initialVals, "payoutMethod")) THEN EXPENSE ELSE PAYEE)
       /\ step' # step =>
              /\ Truthy(Prop(values, "payoutMethod"))
              /\ UNCHANGED <<formVars, memoVars, props, initialVals, persisted,
                             pendingEffects, lastSave, lastLoad>>]_vars

\* a form mounted on the payee step is on the expense step
C18_Witness ==
    /\ ~Truthy(Prop(initialVals, "payoutMethod"))
    /\ step = EXPENSE
    /\ Truthy(Prop(values, "payoutMethod"))

\* the values that the load effect applies for the values held by the persister
ExpectedApplied(formValues) ==
    LET payoutMethod == Prop(formValues, "payoutMethod")
        isBankAccount == Truthy(payoutMethod) /\ payoutMethod.type = BANK_ACCOUNT
        hasTransferwise == /\ "host" \in DOMAIN props.collective
                           /\ "transferwise" \in DOMAIN props.collective.host
    IN  IF isBankAccount /\ ~hasTransferwise
        THEN [formValues EXCEPT !.payoutMethod = Undefined]
        ELSE formValues

\* C20: the values of the persister are applied only with shouldLoadValuesFromPersister
\* set, with a persister and on a form that is not dirty; the applied values are those
\* of the persister, with payoutMethod undefined when it is a BANK_ACCOUNT and the host
\* of the collective has no transferwise, and unchanged otherwise
C20_LoadWhenNotDirty ==
    [][/\ lastLoad' # lastLoad =>
              /\ pendingEffects # Undefined
              /\ props.shouldLoadValuesFromPersister
              /\ props.formPersister
              /\ ~Dirty(values)
              /\ lastLoad' = [loaded |-> persisted, applied |-> ExpectedApplied(persisted),
                              dirty |-> FALSE]
              /\ values' = ExpectedApplied(persisted)
       /\ lastLoad # Undefined =>
              /\ ~lastLoad.dirty
              /\ props.shouldLoadValuesFromPersister /\ props.formPersister
              /\ lastLoad.applied = ExpectedApplied(lastLoad.loaded)]_vars

\* a saved bank account was loaded for a collective whose host has no transferwise
C20_Witness ==
    /\ lastLoad # Undefined
    /\ "host" \in DOMAIN props.collective
    /\ Truthy(lastLoad.loaded.payoutMethod)
    /\ lastLoad.loaded.payoutMethod.type = BANK_ACCOUNT
    /\ lastLoad.applied.payoutMethod = Undefined
    /\ lastLoad.applied.description = Str("Lunch")
-----------------------------------------------------------------------------
(* Property of ExpenseForm: validation on each change *)

\* C19: without validateOnChange no validation runs on a change before the first submit
\* attempt; after a submit attempt validation runs on every change of the values; once
\* hasValidate is set it stays set
C19_ValidationOnAfterSubmit ==
    [][/\ (submitAttempts = 0 /\ ~hasValidate /\ values' # values) => ~validated'
       /\ (submitAttempts > 0 /\ values' # values) =>
              validated' /\ errors' = validate(values')
       /\ hasValidate => hasValidate']_vars
-----------------------------------------------------------------------------
(* Properties of the payee location of ExpenseFormBody *)

\* the load effect replaces the values in the effects that are to run
LoadEffectRuns ==
    /\ pendingEffects # Undefined
    /\ pendingEffects.mount \/ pendingEffects.dirty
    /\ props.shouldLoadValuesFromPersister /\ props.formPersister /\ ~Dirty(values)
    /\ Truthy(persisted)

\* the location of a payee as the form holds it: country or null, address or ''
LocationOf(payee) ==
    [country |-> IF Truthy(Get(payee, <<"location", "country">>))
                 THEN payee.location.country ELSE Null,
     address |-> IF Truthy(Get(payee, <<"location", "address">>))
                 THEN payee.location.address ELSE Str("")]

\* the effects other than the load keep a non-empty address; they change the location
\* only by the pre-fill, which runs at mount and on a change of the payee, when the
\* address is empty and the payee has a location, and copies the location of the payee
PrefillKeepsAddress ==
    (pendingEffects # Undefined /\ ~LoadEffectRuns) =>
        /\ Truthy(Get(values, <<"payeeLocation", "address">>)) =>
               values'.payeeLocation = values.payeeLocation
        /\ values'.payeeLocation # values.payeeLocation =>
               /\ pendingEffects.mount \/ pendingEffects.payee
               /\ Truthy(Get(values, <<"payee", "location">>))
               /\ values'.payeeLocation = LocationOf(values.payee)

\* a payee selected through the picker brings its location, whatever the address was
PickerOverwritesLocation ==
    (pendingEffects = Undefined /\ Prop(values', "payee") # Prop(values, "payee")) =>
        values'.payeeLocation = LocationOf(values'.payee)

\* C21: the pre-fill effect never overwrites a non-empty payeeLocation.address: it copies
\* the location of the payee (country or null, address or '') only when the address is
\* empty and the payee has a location; a payee selected through the picker overwrites
\* payeeLocation with the location of the selected payee unconditionally
C21_PrefillAndPicker == [][PrefillKeepsAddress /\ PickerOverwritesLocation]_vars

\* the pre-fill effect taken alone
PrefillEffectProperty == [][PrefillKeepsAddress]_vars

\* the picker has selected a payee without location while an address was set
PickedWithoutLocation ==
    /\ pendingEffects # Undefined
    /\ values.payee = NewcomerPayee
    /\ values.payeeLocation.address = Str("1 Main St")
-----------------------------------------------------------------------------
(* Properties of the steps of ExpenseFormBody *)

\* C22: whenever the form is on the EXPENSE step, once the effects of the render have
\* run, a payout method is selected, so that the Back button is not disabled and the
\* user can return to the PAYEE step
C22_ExpenseStepHasPayoutMethod ==
    (pendingEffects = Undefined /\ step = EXPENSE) =>
        Truthy(Prop(values, "payoutMethod")) /\ ~BackDisabled

\* as long as no persisted values were applied, the EXPENSE step has a payout method
ExpenseStepWithoutLoad ==
    (lastLoad = Undefined /\ step = EXPENSE) => Truthy(Prop(values, "payoutMethod"))

-----------------------------------------------------------------------------
(* Property of the load effect of ExpenseFormBody over a session *)

\* C24: once the form has been dirty, so that its values were saved, the load effect
\* applies no values of the persister any more, whatever the edits that follow, those
\* that bring the values back to the initial values included
C24_NoLoadOnceDirty ==
    [][(lastSave # Undefined /\ LoadEffectRuns) =>
           values' = values /\ lastLoad' = lastLoad]_vars
-----------------------------------------------------------------------------
(* ExpenseFormPayeeStep: the payee step of the sign up flow *)

\* the props of ExpenseFormPayeeStep; onCancel and onNext tell whether the prop is given
PayeeStepProps ==
    {[collective |-> collective, payoutProfiles |-> <<>>, isOnBehalf |-> b,
      onCancel |-> c, onNext |-> n] : b \in BOOLEAN, c \in BOOLEAN, n \in BOOLEAN}

\* the values of the form when the step is shown: any type or none, with or without a
\* payee, with or without payeeLocation
PayeeStepDrafts ==
    LET base == getDefaultExpense(collective)
        typed == {base} \cup {("type" :> Str(t)) @@ base : t \in expenseTypes}
        withPayee == typed \cup {[v EXCEPT !.payee = UserPayee] : v \in typed}
    IN  withPayee \cup {Without(v, {"payeeLocation"}) : v \in withPayee}

\* Variant of payeeStepOneCompleted that asks no location of any type
payeeStepOneCompleted_NoLocation ==
    IF props.isOnBehalf
    THEN Truthy(Prop(values, "payee"))
    ELSE Truthy(Prop(values, "payoutMethod"))

\* ExpenseFormPayeeStep: stepOneCompleted, as the condition it is used for
payeeStepOneCompleted ==
    IF props.isOnBehalf
    THEN Truthy(Prop(values, "payee"))
    ELSE IF Prop(values, "type") = Str(RECEIPT)
    THEN Truthy(Prop(values, "payoutMethod"))
    ELSE /\ Truthy(Prop(values, "payoutMethod"))
         /\ Truthy(Get(values, <<"payeeLocation", "country">>))
         /\ Truthy(Get(values, <<"payeeLocation", "address">>))

\* {values.payee && (...)}: the Cancel and Next buttons are rendered
PayeeStepButtonsRendered == Truthy(Prop(values, "payee"))

\* a field of the step sets values of the form; the step renders again
PayeeStepChange(newValues) ==
    /\ newValues # values
    /\ values' = newValues
    /\ payeeStepPayoutMethods' = getPayoutMethodsFromPayeeStep(Prop(newValues, "payee"))
    /\ UNCHANGED <<callVars, errors, validated, hasValidate, submitAttempts, onSubmitCalls,
                   lastSubmitted, allPayoutMethods, rendered, prepVars, bodyVars>>

\* formik sets a property of values.payee, which is created when it is not an object
SetInPayee(name, value) ==
    LET payee == IF Truthy(Prop(values, "payee")) THEN values.payee ELSE EmptyObject
    IN  PayeeStepChange(("payee" :> ((name :> value) @@ payee)) @@ values)

\* formik sets a property of values.payeeLocation
SetInPayeeLocation(name, value) ==
    LET location == IF Truthy(Prop(values, "payeeLocation"))
                    THEN values.payeeLocation ELSE EmptyObject
    IN  PayeeStepChange(("payeeLocation" :> ((name :> value) @@ location)) @@ values)

\* Field payee.name
TypePayeeName(text) == SetInPayee("name", Str(text))

\* Field payee.isOrganization: the checkbox
TogglePayeeIsOrganization ==
    LET payee == Prop(values, "payee")
        checked == Truthy(payee) /\ "isOrganization" \in DOMAIN payee /\ payee.isOrganization
    IN  SetInPayee("isOrganization", ~checked)

\* FastField payeeLocation.country: InputTypeCountry onChange
ChangePayeeCountry(value) == SetInPayeeLocation("country", value)

\* FastField payeeLocation.address
TypePayeeAddress(text) == SetInPayeeLocation("address", Str(text))

\* PayoutMethodSelect of the step: disabled={!values.payee}, onChange={setPayoutMethod}
SelectPayeeStepPayoutMethod(value) ==
    /\ Truthy(Prop(values, "payee"))
    /\ PayeeStepChange(("payoutMethod" :> value) @@ values)

\* the methods that the PayoutMethodSelect of the step offers
PayeeStepPayoutMethodOptions ==
    {payeeStepPayoutMethods[i] : i \in DOMAIN payeeStepPayoutMethods}
        \cup {IncompleteBankAccount}

\* Next button of the step: onClick={() => onNext?.()}
ClickPayeeStepNext ==
    /\ PayeeStepButtonsRendered
    /\ payeeStepOneCompleted
    /\ props.onNext
    /\ onNextCalls < MaxStepClicks
    /\ onNextCalls' = onNextCalls + 1
    /\ UNCHANGED <<formVars, memoVars, prepVars, bodyVars, onCancelCalls, inviteValue,
                   onSaveCalls, lastSaved>>

\* Cancel button of the step, rendered for an onCancel prop: onClick={() => onCancel?.()}
ClickPayeeStepCancel ==
    /\ PayeeStepButtonsRendered
    /\ props.onCancel
    /\ payeeStepOneCompleted
    /\ onCancelCalls < MaxStepClicks
    /\ onCancelCalls' = onCancelCalls + 1
    /\ UNCHANGED <<formVars, memoVars, prepVars, bodyVars, onNextCalls, inviteValue,
                   onSaveCalls, lastSaved>>

\* the step is rendered with the values of the form
InitPayeeStep ==
    /\ props \in PayeeStepProps
    /\ values \in PayeeStepDrafts
    /\ initialVals = values
    /\ step = PAYEE
    /\ persisted = Null
    /\ pendingEffects = Undefined
    /\ lastSave = Undefined
    /\ lastLoad = Undefined
    /\ errors = EmptyObject
    /\ validated = FALSE
    /\ hasValidate = FALSE
    /\ submitAttempts = 0
    /\ onSubmitCalls = 0
    /\ lastSubmitted = Undefined
    /\ allPayoutMethods = <<>>
    /\ payeeStepPayoutMethods = getPayoutMethodsFromPayeeStep(values.payee)
    /\ rendered = {"ExpenseFormPayeeStep"}
    /\ payload = Undefined
    /\ payloadAgain = Undefined
    /\ NoCalls

NextPayeeStep ==
    \/ \E text \in {"", "Ann"} : TypePayeeName(text)
    \/ TogglePayeeIsOrganization
    \/ \E value \in {Null, Str("US")} : ChangePayeeCountry(value)
    \/ \E text \in {"", "1 Main St"} : TypePayeeAddress(text)
    \/ \E value \in PayeeStepPayoutMethodOptions : SelectPayeeStepPayoutMethod(value)
    \/ ClickPayeeStepNext
    \/ ClickPayeeStepCancel

SpecPayeeStep == InitPayeeStep /\ [][NextPayeeStep]_vars

\* step one as C25 states it
StepOneAsStated ==
    IF props.isOnBehalf
    THEN Prop(values, "payee") \notin {Null, Undefined}
    ELSE /\ Prop(values, "payoutMethod") \notin {Null, Undefined}
         /\ Prop(values, "type") # Str(RECEIPT) =>
                /\ "payeeLocation" \in DOMAIN values
                /\ Prop(values.payeeLocation, "country") \notin {Null, Undefined, Str("")}
                /\ Prop(values.payeeLocation, "address") \notin {Null, Undefined, Str("")}

\* C25: the onNext and onCancel props are called only while a payee is set and step one
\* is complete: a payee when isOnBehalf; otherwise a payout method for a RECEIPT, and a
\* payout method with a non-empty country and address of payeeLocation for any other
\* type; a call changes no value of the form
C25_NextAndCancelWhenComplete ==
    [][(onNextCalls' # onNextCalls \/ onCancelCalls' # onCancelCalls) =>
           /\ Prop(values, "payee") \notin {Null, Undefined}
           /\ StepOneAsStated
           /\ values' = values]_vars

\* Next and Cancel were used for an invoice that is not on behalf of someone
C25_Witness ==
    /\ onNextCalls > 0
    /\ onCancelCalls > 0
    /\ ~props.isOnBehalf
    /\ Prop(values, "type") = Str(INVOICE)
    /\ StepOneAsStated
-----------------------------------------------------------------------------
(* InviteCollectiveForm *)

InviteNames == {"", "John", "Ann"}
InviteEmails == {"", "john", "john@example.com", "ann@example.org"}

\* lib/utils isValidEmail, for the emails that are entered
isValidEmail(email) == email \in {Str("john@example.com"), Str("ann@example.org")}

\* useState({ name: '', email: '', isInvite: true })
InitialInviteValue == [name |-> Str(""), email |-> Str(""), isInvite |-> TRUE]

\* Variant of setValueProp that does not spread the previous value
setValueProp_NoSpread(v, prop, text) == (prop :> text)

\* setValueProp(prop)(e): setValue(v => ({ ...v, [prop]: e.target?.value }))
setValueProp(v, prop, text) == (prop :> text) @@ v

\* Variant of StyledButtonType that leaves a button without type to the default of HTML
StyledButtonType_HtmlDefault(type) == IF type = Undefined THEN Str("submit") ELSE type

\* StyledButton: the type of the button that is rendered; a button without type prop
\* does not submit the form that contains it
StyledButtonType(type) == IF type = Undefined THEN Str("button") ELSE type

\* the Save button: disabled={!isValidEmail(value.email)}
SaveDisabled == ~isValidEmail(Prop(inviteValue, "email"))

\* the name input: onChange={setValueProp('name')}
EditInviteName(text) ==
    /\ inviteValue' = setValueProp(inviteValue, "name", Str(text))
    /\ UNCHANGED <<formVars, memoVars, prepVars, bodyVars, onNextCalls, onCancelCalls,
                   onSaveCalls, lastSaved>>

\* the email input: onChange={setValueProp('email')}
EditInviteEmail(text) ==
    /\ inviteValue' = setValueProp(inviteValue, "email", Str(text))
    /\ UNCHANGED <<formVars, memoVars, prepVars, bodyVars, onNextCalls, onCancelCalls,
                   onSaveCalls, lastSaved>>

\* Variant of SubmitInvite for a Save button that is never disabled
SubmitInvite_AlwaysEnabled ==
    /\ onSaveCalls < MaxInviteCalls
    /\ onSaveCalls' = onSaveCalls + 1
    /\ lastSaved' = inviteValue
    /\ UNCHANGED <<formVars, memoVars, prepVars, bodyVars, onNextCalls, onCancelCalls,
                   inviteValue>>

\* the form is submitted through its Save button: onSubmit calls onSave(value)
SubmitInvite ==
    /\ StyledButtonType(Str("submit")) = Str("submit")
    /\ ~SaveDisabled
    /\ onSaveCalls < MaxInviteCalls
    /\ onSaveCalls' = onSaveCalls + 1
    /\ lastSaved' = inviteValue
    /\ UNCHANGED <<formVars, memoVars, prepVars, bodyVars, onNextCalls, onCancelCalls,
                   inviteValue>>

\* the Cancel button: onClick={() => onCancel()}
CancelInvite ==
    /\ onCancelCalls < MaxInviteCalls
    /\ onCancelCalls' = onCancelCalls + 1
    /\ IF StyledButtonType(Undefined) = Str("submit")
       THEN /\ onSaveCalls < MaxInviteCalls
            /\ onSaveCalls' = onSaveCalls + 1
            /\ lastSaved' = inviteValue
       ELSE UNCHANGED <<onSaveCalls, lastSaved>>
    /\ UNCHANGED <<formVars, memoVars, prepVars, bodyVars, onNextCalls, inviteValue>>

\* InviteCollectiveForm is mounted
InitInvite ==
    /\ inviteValue = InitialInviteValue
    /\ onNextCalls = 0
    /\ onCancelCalls = 0
    /\ onSaveCalls = 0
    /\ lastSaved = Undefined
    /\ values = getDefaultExpense(collective)
    /\ errors = EmptyObject
    /\ validated = FALSE
    /\ hasValidate = FALSE
    /\ submitAttempts = 0
    /\ onSubmitCalls = 0
    /\ lastSubmitted = Undefined
    /\ allPayoutMethods = <<>>
    /\ payeeStepPayoutMethods = <<>>
    /\ rendered = {}
    /\ payload = Undefined
    /\ payloadAgain = Undefined
    /\ MountedWithoutPersister

NextInvite ==
    \/ \E text \in InviteNames : EditInviteName(text)
    \/ \E text \in InviteEmails : EditInviteEmail(text)
    \/ SubmitInvite
    \/ CancelInvite

SpecInvite == InitInvite /\ [][NextInvite]_vars

====
